---- MODULE Spec2Model ----
(***************************************************************************)
(* acpid-plug: the stream of AC plug events (src/src/lib.rs).              *)
(*                                                                         *)
(* The engine AcPlugEvents { reader, line, plugged } is driven by          *)
(* poll_next.  The peer (acpid) writes newline-terminated records to the   *)
(* socket; the reader is a tokio BufReader over the socket, and each       *)
(* poll_next creates a fresh read_line future over this.line, polls it     *)
(* once and drops it.  Strings are sequences of one-character strings.     *)
(***************************************************************************)
EXTENDS Naturals, Sequences, FiniteSets

(***************************************************************************)
(* Bounds of the model.                                                    *)
(***************************************************************************)
MaxLines == 2       \* records the peer writes in one run

(***************************************************************************)
(* Characters and the records the peer may write.                          *)
(***************************************************************************)
NL == "\n"
BadByte == "0xFF"   \* a byte that is not valid UTF-8

\* str::trim strips Unicode White_Space; these are the ones on the wire.
WhiteSpace == {" ", "\n", "\r", "\t"}

\* The literal of starts_with("ac_adapter").
AcAdapter == <<"a", "c", "_", "a", "d", "a", "p", "t", "e", "r">>

LineTab ==
  << AcAdapter \o <<" ", "1", NL>>,             \* plug announcement
     AcAdapter \o <<" ", "0", NL>>,             \* unplug announcement
     AcAdapter \o <<" ", "x", NL>>,             \* adapter record, no digit
     <<"b", " ", "1", NL>>,                     \* other record ending in 1
     <<"b", " ", "0", NL>>,                     \* other record ending in 0
     <<" ">> \o AcAdapter \o <<"1", "\r", NL>>, \* padded plug announcement
     <<BadByte, NL>>,                           \* record that is not UTF-8
     <<NL>>,                                    \* empty record
     AcAdapter \o <<"_", "e", "x", "t", "r", "a", "_", "1", "0", NL>> >>
                                                \* longer name, ends in 0

Lines == 1..Len(LineTab)

VARIABLES
  plugged,    \* AcPlugEvents.plugged
  line,       \* AcPlugEvents.line
  rbuf,       \* bytes the BufReader holds and has not handed out yet
  sock,       \* bytes written by the peer, not yet read from the socket
  sockErr,    \* the socket has a read failure to report
  closed,     \* the peer has closed the connection
  cur,        \* record the peer is writing (index of LineTab), 0 if none
  off,        \* bytes of record cur already written
  nsent,      \* number of records the peer has begun to write
  refPlugged, \* state of the reference engine, fed one whole record at a time
  refEvents,  \* events of the reference engine, in order
  boot,       \* the value plugged was constructed with
  result,     \* what the last poll_next returned
  events,     \* the Some(Ok(event)) items poll_next has returned, in order
  eof,        \* a poll_next has returned None
  failed,     \* a poll_next has returned Some(Err(..))
  tested,     \* the texts read_line that the last poll_next tested, in order
  slices,     \* the slices of this.line those texts were taken from
  partial,    \* bytes of an unterminated record taken by suspended reads
  bat1,       \* the file BAT1_STATUS: its text, or why it cannot be read
  bat0,       \* the file BAT0_STATUS: its text, or why it cannot be read
  connOk,     \* UnixStream::connect(socket) will succeed
  setup,      \* what with_socket returned: "None" while it was not called
  fsReads     \* the status files with_socket has read, in order

bootVars == <<bat1, bat0, connOk, setup, fsReads>>

vars == <<plugged, line, rbuf, sock, sockErr, closed, cur, off, nsent, boot,
          refPlugged, refEvents, result, events, eof, failed, tested, slices,
          partial, bat1, bat0, connOk, setup, fsReads>>

(***************************************************************************)
(* Pure helpers on strings.                                                *)
(***************************************************************************)
Take(s, n) == SubSeq(s, 1, n)
Drop(s, n) == SubSeq(s, n + 1, Len(s))

StartsWith(s, p) == Len(s) >= Len(p) /\ Take(s, Len(p)) = p
EndsWith(s, c) == Len(s) >= 1 /\ s[Len(s)] = c
IsSuffix(p, s) == Len(p) <= Len(s) /\ Drop(s, Len(s) - Len(p)) = p

RECURSIVE TrimStart(_)
TrimStart(s) ==
  IF s # <<>> /\ Head(s) \in WhiteSpace THEN TrimStart(Tail(s)) ELSE s

RECURSIVE TrimEnd(_)
TrimEnd(s) ==
  IF s # <<>> /\ s[Len(s)] \in WhiteSpace THEN TrimEnd(Take(s, Len(s) - 1)) ELSE s

Trim(s) == TrimEnd(TrimStart(s))

\* memchr(b'\n', available): index of the first newline, 0 if there is none.
RECURSIVE MemChr(_, _)
MemChr(s, i) ==
  IF i > Len(s) THEN 0 ELSE IF s[i] = NL THEN i ELSE MemChr(s, i + 1)

\* String::from_utf8 succeeds.
ValidUtf8(s) == \A i \in 1..Len(s) : s[i] # BadByte

(***************************************************************************)
(* The reader: BufReader<UnixStream> and tokio's read_line.                *)
(* A connection value is [rbuf, sock, sockErr, closed].                    *)
(***************************************************************************)

\* BufReader::poll_fill_buf: hand out the buffered bytes; when there are
\* none, read the socket once: its bytes, else its failure, else end of
\* file (nothing available), else Pending.
FillBuf(c) ==
  IF c.rbuf # <<>> THEN [st |-> "Ready", conn |-> c]
  ELSE IF c.sock # <<>>
    THEN [st |-> "Ready", conn |-> [c EXCEPT !.rbuf = c.sock, !.sock = <<>>]]
  ELSE IF c.sockErr THEN [st |-> "Err", conn |-> [c EXCEPT !.sockErr = FALSE]]
  ELSE IF c.closed THEN [st |-> "Ready", conn |-> c]
  ELSE [st |-> "Pending", conn |-> c]

\* read_until_internal(reader, cx, b'\n', buf, read): the loop of the
\* read_line future.  Bytes are moved from the reader to the future's buf
\* up to and including the first newline; the loop ends on the newline or
\* when nothing is available (end of file).  ReadUntil is one turn of the
\* loop, Available its part after poll_fill_buf returned f, Consume its
\* part after memchr returned i (0: no newline).
RECURSIVE ReadUntil(_, _, _)
Consume(buf, read, c, i, used) ==
  IF i > 0 \/ used = 0
    THEN [io |-> "Ok", n |-> read + used, buf |-> buf \o Take(c.rbuf, used),
          read |-> 0, conn |-> [c EXCEPT !.rbuf = Drop(c.rbuf, used)]]
    ELSE ReadUntil(buf \o Take(c.rbuf, used), read + used,
                   [c EXCEPT !.rbuf = Drop(c.rbuf, used)])

Found(buf, read, c, i) ==
  Consume(buf, read, c, i, IF i > 0 THEN i ELSE Len(c.rbuf))

Available(buf, read, f) ==
  IF f.st \in {"Pending", "Err"}
    THEN [io |-> f.st, n |-> 0, buf |-> buf, read |-> read, conn |-> f.conn]
    ELSE Found(buf, read, f.conn, MemChr(f.conn.rbuf, 1))

ReadUntil(buf, read, c) == Available(buf, read, FillBuf(c))

\* What the read_line future leaves behind when read_until_internal has
\* returned r (read_line_internal, finish_string_read), or when the future
\* is dropped on Pending.  The future takes the contents of the string
\* (mem::take) into its own buf and gives them back, with what it read,
\* only when it completes:
\*   Ok, valid UTF-8      the string is buf, Ok(n)
\*   Err, valid UTF-8     the string is buf (bytes read so far included)
\*   invalid UTF-8        the string is what it was before the read, Err
\*   Pending              the future is dropped with buf: the string stays
\*                        empty and the bytes already taken are gone
\* taken is what the future had read when it was dropped.
Finish(r) ==
  IF r.io = "Pending"
    THEN [io |-> "Pending", n |-> 0, line |-> <<>>, conn |-> r.conn,
          taken |-> Drop(r.buf, Len(r.buf) - r.read)]
  ELSE IF r.io = "Ok" /\ ValidUtf8(r.buf)
    THEN [io |-> "Ok", n |-> r.n, line |-> r.buf, conn |-> r.conn, taken |-> <<>>]
  ELSE IF r.io = "Ok"
    THEN [io |-> "Err", n |-> 0, line |-> Take(r.buf, Len(r.buf) - r.n),
          conn |-> r.conn, taken |-> <<>>]
  ELSE IF ValidUtf8(r.buf)
    THEN [io |-> "Err", n |-> 0, line |-> r.buf, conn |-> r.conn, taken |-> <<>>]
  ELSE [io |-> "Err", n |-> 0, line |-> Take(r.buf, Len(r.buf) - r.read),
        conn |-> r.conn, taken |-> <<>>]

\* this.reader.read_line(&mut this.line), polled once and dropped.
ReadLine(ln, c) == Finish(ReadUntil(ln, 0, c))

(***************************************************************************)
(* poll_next.                                                              *)
(***************************************************************************)
Events == {"Plugged", "Unplugged"}

\* Mutants of Decide: an event for every announcement, whatever the state;
\* the digits of the two states exchanged; a plug announcement repeated
\* while plugged; the prefix test left out.
Decide_NoDedup(p, read_line) ==
  IF StartsWith(read_line, AcAdapter)
    THEN IF EndsWith(read_line, "0") THEN "Unplugged"
         ELSE IF EndsWith(read_line, "1") THEN "Plugged" ELSE "Skip"
    ELSE "Skip"

Decide_DigitsSwapped(p, read_line) ==
  IF StartsWith(read_line, AcAdapter)
    THEN IF p
           THEN IF EndsWith(read_line, "1") THEN "Unplugged" ELSE "Skip"
           ELSE IF EndsWith(read_line, "0") THEN "Plugged" ELSE "Skip"
    ELSE "Skip"

Decide_RepeatPlug(p, read_line) ==
  IF StartsWith(read_line, AcAdapter)
    THEN IF p /\ EndsWith(read_line, "0") THEN "Unplugged"
         ELSE IF EndsWith(read_line, "1") THEN "Plugged" ELSE "Skip"
    ELSE "Skip"

Decide_NoPrefix(p, read_line) ==
  IF p
    THEN IF EndsWith(read_line, "0") THEN "Unplugged" ELSE "Skip"
    ELSE IF EndsWith(read_line, "1") THEN "Plugged" ELSE "Skip"

\* The test of one record: starts_with("ac_adapter"), then ends_with('0')
\* when plugged and ends_with('1') when not.  "Skip" is the fall through
\* to this.line.clear() and the next turn of the loop.
Decide(p, read_line) ==
  IF StartsWith(read_line, AcAdapter)
    THEN IF p
           THEN IF EndsWith(read_line, "0") THEN "Unplugged" ELSE "Skip"
           ELSE IF EndsWith(read_line, "1") THEN "Plugged" ELSE "Skip"
    ELSE "Skip"

\* Mutant of ReadLineText: the slice is tested untrimmed.
ReadLineText_NoTrim(ln, read) == Take(ln, read)

\* let read_line = &this.line[..read].trim();
ReadLineText(ln, read) == Trim(Take(ln, read))

\* Mutants of MatchArm: a read of zero bytes returned as an error item; a
\* failed read returned as the end of the stream.
MatchArm_EofAsErr(io, read, p, read_line) ==
  IF io = "Pending" THEN "Pending"
  ELSE IF io = "Err" THEN "Err"
  ELSE IF read = 0 THEN "Err"
  ELSE Decide(p, read_line)

MatchArm_ErrAsEnd(io, read, p, read_line) ==
  IF io = "Pending" THEN "Pending"
  ELSE IF io = "Err" THEN "End"
  ELSE IF read = 0 THEN "End"
  ELSE Decide(p, read_line)

\* Mutant of MatchArm: an empty record ends the stream like a read of zero
\* bytes.
MatchArm_EmptyEndsStream(io, read, p, read_line) ==
  IF io = "Pending" THEN "Pending"
  ELSE IF io = "Err" THEN "Err"
  ELSE IF read = 0 \/ read_line = <<>> THEN "End"
  ELSE Decide(p, read_line)

\* The arms of match line_read.poll_unpin(cx): what the call does with
\* the outcome (io, read) of the read, the engine being in state p and
\* read_line being the text of the record.  "Skip" goes round the loop,
\* every other value is returned.
MatchArm(io, read, p, read_line) ==
  IF io = "Pending" THEN "Pending"
  ELSE IF io = "Err" THEN "Err"
  ELSE IF read = 0 THEN "End"
  ELSE Decide(p, read_line)

\* Mutant of PluggedAfter: this.plugged = false is forgotten.
PluggedAfter_StaleOnUnplug(p, what) ==
  IF what = "Plugged" THEN TRUE ELSE p

\* this.plugged after the call returns what: assigned false before
\* Event::Unplugged is returned and true before Event::Plugged, left alone
\* otherwise.
PluggedAfter(p, what) ==
  IF what = "Unplugged" THEN FALSE ELSE IF what = "Plugged" THEN TRUE ELSE p

\* Mutant of LineAfter: this.line.clear() at the end of the loop body is
\* missing, the string is cleared only when an event is returned.
LineAfter_NoClearOnSkip(ln, what) ==
  IF what \in Events THEN <<>> ELSE ln

\* this.line after the outcome what of a read that left it as ln: cleared
\* after every record, kept on None and on Err.
LineAfter(ln, what) ==
  IF what \in Events \cup {"Skip"} THEN <<>> ELSE ln

\* The slice &this.line[..read] of a read that returned Ok(read) and left
\* this.line as ln: its end and the length of the string it is taken from.
SliceOf(ln, read) == [read |-> read, len |-> Len(ln)]

\* The loop of poll_next from the engine state (ln, p) over connection c;
\* texts collects the texts tested on the way and sl the slices they were
\* taken from.  PollLoop is one turn of the loop, Matched its part after
\* the read returned r, Arm its part after the match chose what for the
\* text read_line.
RECURSIVE PollLoop(_, _, _, _, _)

\* Mutant of Arm: a record that is no event returns control to the caller.
Arm_ReturnOnSkip(p, texts, sl, r, read_line, what) ==
  [result |-> IF what = "Skip" THEN "Pending" ELSE what,
   line |-> LineAfter(r.line, what),
   plugged |-> PluggedAfter(p, what), conn |-> r.conn,
   tested |-> IF what \in Events \cup {"Skip"}
                THEN Append(texts, read_line) ELSE texts,
   slices |-> IF what \in Events \cup {"Skip"}
                THEN Append(sl, SliceOf(r.line, r.n)) ELSE sl,
   taken |-> IF what = "Skip" THEN <<>> ELSE r.taken]

Arm(p, texts, sl, r, read_line, what) ==
  IF what = "Skip"
    THEN PollLoop(LineAfter(r.line, what), p, r.conn,
                  Append(texts, read_line), Append(sl, SliceOf(r.line, r.n)))
    ELSE [result |-> what, line |-> LineAfter(r.line, what),
          plugged |-> PluggedAfter(p, what), conn |-> r.conn,
          tested |-> IF what \in Events THEN Append(texts, read_line) ELSE texts,
          slices |-> IF what \in Events
                       THEN Append(sl, SliceOf(r.line, r.n)) ELSE sl,
          taken |-> r.taken]

Tested(p, texts, sl, r, read_line) ==
  Arm(p, texts, sl, r, read_line, MatchArm(r.io, r.n, p, read_line))

Matched(p, texts, sl, r) ==
  Tested(p, texts, sl, r, ReadLineText(r.line, r.n))

PollLoop(ln, p, c, texts, sl) == Matched(p, texts, sl, ReadLine(ln, c))

(***************************************************************************)
(* with_socket: the connection and the bootstrap of plugged.               *)
(* A status file is [kind, text]: kind "Ok" with its text, or the          *)
(* io::ErrorKind of reading it.                                            *)
(***************************************************************************)
Discharging == <<"D", "i", "s", "c", "h", "a", "r", "g", "i", "n", "g">>

StatusTab ==
  << Discharging \o <<NL>>,
     <<"C", "h", "a", "r", "g", "i", "n", "g", NL>>,
     <<"F", "u", "l", "l">>,
     <<"N", "o", "t", " ", "c", "h", "a", "r", "g", "i", "n", "g", NL>>,
     <<"d", "i", "s", "c", "h", "a", "r", "g", "i", "n", "g", NL>> >>

FileOf(text) == [kind |-> "Ok", text |-> text]
NoFile(kind) == [kind |-> kind, text |-> <<>>]

Files ==
  {FileOf(StatusTab[i]) : i \in 1..Len(StatusTab)}
    \cup {NoFile("NotFound"), NoFile("PermissionDenied")}

\* Mutant of StatusRead: only a missing BAT1_STATUS falls back to BAT0_STATUS.
StatusRead_NotFoundOnly(b1, b0) ==
  IF b1.kind = "Ok" THEN b1 ELSE IF b1.kind = "NotFound" THEN b0 ELSE b1

\* match read_to_string(BAT1_STATUS) { Ok(string) => string,
\*                                    Err(_) => read_to_string(BAT0_STATUS)? }
\* as a file value: the text taken, or the error that leaves with_socket.
StatusRead(b1, b0) == IF b1.kind = "Ok" THEN b1 ELSE b0

\* The files this match reads, in order.
StatusReads(b1, b0) == IF b1.kind = "Ok" THEN <<"BAT1">> ELSE <<"BAT1", "BAT0">>

\* Mutant of PluggedOf: the status is compared untrimmed.
PluggedOf_NoTrim(status) == status # Discharging

\* status.trim() != "Discharging"
PluggedOf(status) == Trim(status) # Discharging

\* Mutant of SetupResult: the ? after UnixStream::connect is missing.
SetupResult_ConnectIgnored(ok, b1, b0) == StatusRead(b1, b0).kind

\* The Result of with_socket: "Ok", or the error it returns.
SetupResult(ok, b1, b0) ==
  IF ~ok THEN "ConnectFailed" ELSE StatusRead(b1, b0).kind

(***************************************************************************)
(* The state after AcPlugEvents::with_socket: an empty line, a reader that *)
(* has read nothing, plugged as read from the battery status.              *)
(***************************************************************************)
Init ==
  /\ connOk = TRUE
  /\ bat1 \in {FileOf(StatusTab[1]), FileOf(StatusTab[2])}
  /\ bat0 = NoFile("NotFound")
  /\ setup = SetupResult(connOk, bat1, bat0)
  /\ fsReads = StatusReads(bat1, bat0)
  /\ plugged = PluggedOf(StatusRead(bat1, bat0).text)
  /\ boot = plugged
  /\ line = <<>>
  /\ rbuf = <<>>
  /\ sock = <<>>
  /\ sockErr = FALSE
  /\ closed = FALSE
  /\ cur = 0
  /\ off = 0
  /\ nsent = 0
  /\ refPlugged = plugged
  /\ refEvents = <<>>
  /\ result = "New"
  /\ events = <<>>
  /\ eof = FALSE
  /\ failed = FALSE
  /\ tested = <<>>
  /\ slices = <<>>
  /\ partial = <<>>

Conn == [rbuf |-> rbuf, sock |-> sock, sockErr |-> sockErr, closed |-> closed]

\* One call of poll_next, from its entry to its return; r is where its
\* loop ended.
PollNext ==
  \E r \in {PollLoop(line, plugged, Conn, <<>>, <<>>)} :
    /\ setup = "Ok"
    /\ line' = r.line
    /\ plugged' = r.plugged
    /\ rbuf' = r.conn.rbuf
    /\ sock' = r.conn.sock
    /\ sockErr' = r.conn.sockErr
    /\ result' = r.result
    /\ events' = IF r.result \in Events THEN Append(events, r.result) ELSE events
    /\ eof' = (eof \/ r.result = "End")
    /\ failed' = (failed \/ r.result = "Err")
    /\ tested' = r.tested
    /\ slices' = r.slices
    /\ partial' = IF r.result = "Pending"
                    THEN (IF r.tested = <<>> THEN partial ELSE <<>>) \o r.taken
                    ELSE <<>>
    /\ UNCHANGED <<closed, cur, off, nsent, boot, refPlugged, refEvents>>
    /\ UNCHANGED bootVars

\* The reference engine takes record l whole: one read, one test.
RefFeed(l) ==
  \E d \in {Decide(refPlugged, ReadLineText(LineTab[l], Len(LineTab[l])))} :
    /\ refPlugged' = PluggedAfter(refPlugged, d)
    /\ refEvents' = IF d \in Events THEN Append(refEvents, d) ELSE refEvents

\* Where the peer may cut a record in two writes.
Cuts(l) == {k \in {7, Len(LineTab[l]) - 1} : k \in 1..(Len(LineTab[l]) - 1)}

\* The peer writes record l in one piece.
PeerWrite(l) ==
  /\ setup = "Ok"
  /\ ~closed
  /\ cur = 0
  /\ nsent < MaxLines
  /\ sock' = sock \o LineTab[l]
  /\ nsent' = nsent + 1
  /\ RefFeed(l)
  /\ UNCHANGED <<plugged, line, rbuf, sockErr, closed, cur, off, boot, result,
                 events, eof, failed, tested, partial>>
  /\ UNCHANGED <<bootVars, slices>>

\* The peer writes the first k bytes of record l.
PeerWritePart(l, k) ==
  /\ setup = "Ok"
  /\ ~closed
  /\ cur = 0
  /\ nsent < MaxLines
  /\ sock' = sock \o Take(LineTab[l], k)
  /\ nsent' = nsent + 1
  /\ cur' = l
  /\ off' = k
  /\ UNCHANGED <<plugged, line, rbuf, sockErr, closed, boot, refPlugged,
                 refEvents, result, events, eof, failed, tested, partial>>
  /\ UNCHANGED <<bootVars, slices>>

\* The peer writes the rest of the record it has begun.
PeerFlush ==
  /\ setup = "Ok"
  /\ ~closed
  /\ cur # 0
  /\ sock' = sock \o Drop(LineTab[cur], off)
  /\ cur' = 0
  /\ off' = 0
  /\ RefFeed(cur)
  /\ UNCHANGED <<plugged, line, rbuf, sockErr, closed, nsent, boot, result,
                 events, eof, failed, tested, partial>>
  /\ UNCHANGED <<bootVars, slices>>

\* The peer closes the connection; what it had not written is never sent.
PeerClose ==
  /\ setup = "Ok"
  /\ ~closed
  /\ closed' = TRUE
  /\ UNCHANGED <<plugged, line, rbuf, sock, sockErr, cur, off, nsent, boot,
                 refPlugged, refEvents, result, events, eof, failed, tested, partial>>
  /\ UNCHANGED <<bootVars, slices>>

\* The socket gets a failure that its next read will report.
SocketError ==
  /\ setup = "Ok"
  /\ ~closed
  /\ ~sockErr
  /\ sockErr' = TRUE
  /\ UNCHANGED <<plugged, line, rbuf, sock, closed, cur, off, nsent, boot,
                 refPlugged, refEvents, result, events, eof, failed, tested,
                 partial>>
  /\ UNCHANGED <<bootVars, slices>>

Next ==
  \/ PollNext
  \/ \E l \in Lines : PeerWrite(l)
  \/ \E l \in Lines : \E k \in Cuts(l) : PeerWritePart(l, k)
  \/ PeerFlush
  \/ PeerClose
  \/ SocketError

Spec == Init /\ [][Next]_vars

(***************************************************************************)
(* The same engine from before with_socket is called: the caller's socket  *)
(* and the two status files are as they may be, nothing is constructed.    *)
(***************************************************************************)
InitBoot ==
  /\ connOk \in BOOLEAN
  /\ bat1 \in Files
  /\ bat0 \in Files
  /\ setup = "None"
  /\ fsReads = <<>>
  /\ plugged = FALSE
  /\ boot = FALSE
  /\ line = <<>>
  /\ rbuf = <<>>
  /\ sock = <<>>
  /\ sockErr = FALSE
  /\ closed = FALSE
  /\ cur = 0
  /\ off = 0
  /\ nsent = 0
  /\ refPlugged = FALSE
  /\ refEvents = <<>>
  /\ result = "New"
  /\ events = <<>>
  /\ eof = FALSE
  /\ failed = FALSE
  /\ tested = <<>>
  /\ slices = <<>>
  /\ partial = <<>>

\* AcPlugEvents::with_socket(socket): connect, then read the status; the
\* engine exists only when both succeeded.
WithSocket ==
  /\ setup = "None"
  /\ setup' = SetupResult(connOk, bat1, bat0)
  /\ fsReads' = IF connOk THEN StatusReads(bat1, bat0) ELSE <<>>
  /\ plugged' = IF SetupResult(connOk, bat1, bat0) = "Ok"
                  THEN PluggedOf(StatusRead(bat1, bat0).text) ELSE plugged
  /\ boot' = plugged'
  /\ refPlugged' = plugged'
  /\ UNCHANGED <<line, rbuf, sock, sockErr, closed, cur, off, nsent, refEvents,
                 result, events, eof, failed, tested, slices, partial, bat1,
                 bat0, connOk>>

\* The records the peer writes in the runs that start before with_socket.
BootLines == {1, 2}

NextBoot ==
  \/ WithSocket
  \/ PollNext
  \/ \E l \in BootLines : PeerWrite(l)
  \/ PeerClose

SpecBoot == InitBoot /\ [][NextBoot]_vars

(***************************************************************************)
(* Properties.                                                             *)
(***************************************************************************)
Opposite(p) == IF p THEN "Unplugged" ELSE "Plugged"

\* A text announces the digit d: the adapter prefix and d as last character.
Announces(text, d) == StartsWith(text, AcAdapter) /\ EndsWith(text, d)

\* A text announces a change of state p / announces the state p itself.
Effective(text, p) == Announces(text, IF p THEN "0" ELSE "1")
Redundant(text, p) == Announces(text, IF p THEN "1" ELSE "0")

\* C1: the events yielded never repeat a polarity: they strictly alternate,
\* and the first one is the opposite of the bootstrap state.
C1_EventsAlternate ==
  /\ \A i \in 1..Len(events) : events[i] \in Events
  /\ \A i \in 1..(Len(events) - 1) : events[i] # events[i + 1]
  /\ events # <<>> => events[1] = Opposite(boot)

C1_Witness == Len(events) >= 2 /\ result \in Events

\* C2: plugged is the polarity of the last event yielded, or the bootstrap
\* value when none was yielded, and it changes only in a call of poll_next
\* that returns an event: calls ending in Pending, None or Err keep it.
C2_PluggedIsLastEvent ==
  /\ [](plugged = IF events = <<>> THEN boot ELSE (events[Len(events)] = "Plugged"))
  /\ [][plugged' # plugged =>
          PollNext /\ result' \in Events /\ events' = Append(events, result')]_vars
  /\ [][PollNext /\ result' \in {"Pending", "End", "Err"} => plugged' = plugged]_vars

C2_Witness == events # <<>> /\ plugged # boot /\ result = "Pending"

\* C3: a record whose text announces a change (adapter prefix, last
\* character 1 while unplugged or 0 while plugged) ends the call: the call
\* returns exactly one event, Plugged resp. Unplugged, and the state flips.
C3_ChangeEmitsOneEvent ==
  [][PollNext =>
       \A i \in 1..Len(tested') :
         Effective(tested'[i], plugged) =>
           /\ i = Len(tested')
           /\ result' = Opposite(plugged)
           /\ plugged' = ~plugged
           /\ events' = Append(events, Opposite(plugged))]_vars

C3_Witness ==
  /\ Len(events) = 2
  /\ result = events[2]
  /\ tested # <<>>
  /\ Effective(tested[Len(tested)], ~plugged)

\* C4: a redundant announcement (1 while plugged, 0 while unplugged) yields
\* no event and keeps the state, however often it is repeated, and the
\* first announcement of a change after it still yields exactly one event.
C4_RedundantIsSilent ==
  [][PollNext =>
       \A i \in 1..Len(tested') :
         Redundant(tested'[i], plugged) =>
           /\ i = Len(tested') =>
                result' \notin Events /\ plugged' = plugged /\ events' = events
           /\ \A j \in (i + 1)..Len(tested') :
                Effective(tested'[j], plugged) =>
                  /\ j = Len(tested')
                  /\ result' = Opposite(plugged)
                  /\ events' = Append(events, Opposite(plugged))]_vars

\* Bootstrap Unplugged, then "ac_adapter 0", then "ac_adapter 1": the one
\* item is Plugged.
C4_Witness ==
  /\ ~boot
  /\ tested = <<Trim(LineTab[2]), Trim(LineTab[1])>>
  /\ events = <<"Plugged">>
  /\ result = "Plugged"

\* C5: a record whose text does not start with ac_adapter yields no event
\* and keeps the state, whatever its last character: a call that ends on
\* such a record returns no event, and the event of a call never comes
\* from such a record.
C5_OtherRecordsIgnored ==
  [][PollNext =>
       /\ \A i \in 1..Len(tested') :
            ~StartsWith(tested'[i], AcAdapter) =>
              \/ result' \notin Events /\ plugged' = plugged /\ events' = events
              \/ i < Len(tested')
       /\ result' \in Events =>
            tested' # <<>> /\ StartsWith(tested'[Len(tested')], AcAdapter)]_vars

C5_Witness ==
  /\ result = "Pending"
  /\ tested # <<>>
  /\ \A i \in 1..Len(tested) :
       ~StartsWith(tested[i], AcAdapter) /\ EndsWith(tested[i], IF plugged THEN "0" ELSE "1")
  /\ events = <<>>

\* C6: a record cut in two writes, with poll_next returning Pending in
\* between, gives the events and the state of the record read whole: once
\* the engine has read all the peer wrote, it agrees with the reference
\* engine that was fed whole records.
C6_SplitLikeWhole ==
  (result = "Pending" /\ rbuf = <<>> /\ sock = <<>> /\ cur = 0
     /\ ~closed /\ ~sockErr /\ ~failed)
  => (events = refEvents /\ plugged = refPlugged)

\* C7: the bytes of an unterminated record that a suspended call has taken
\* from the connection are still in the line buffer when it returns Pending.
C7_PartialKept ==
  result = "Pending" => IsSuffix(partial, line)

\* C8: when the read reports zero bytes (peer closed, nothing left), the
\* call returns None, and from the first None on no call returns an error.
ZeroRead == closed /\ ~sockErr /\ rbuf = <<>> /\ sock = <<>>

C8_EndOfStream ==
  /\ [][PollNext /\ ZeroRead =>
          result' = "End" /\ events' = events /\ plugged' = plugged]_vars
  /\ [][PollNext /\ (eof \/ result' = "End") => result' # "Err"]_vars

C8_Witness == result = "End" /\ eof /\ events # <<>>

\* C9: a failed read ends the call with that error as its item: not None,
\* not an event, not Pending, and no second read in the same call; the
\* failing call leaves plugged and the events alone.
C9_ErrorIsTheItem ==
  [][PollNext =>
       /\ (sockErr /\ ~sockErr') => result' = "Err"
       /\ result' = "Err" =>
            /\ plugged' = plugged
            /\ events' = events
            /\ failed']_vars

C9_Witness == result = "Err" /\ failed /\ events # <<>> /\ tested # <<>>

\* C10: after a call has returned None or an error item, no call returns
\* an item any more.
C10_DoneAfterEndOrError ==
  [][(PollNext /\ (eof \/ failed)) => result' \notin (Events \cup {"Err"})]_vars

\* C11: the bootstrap state is plugged = (trimmed status text is not
\* "Discharging", case-sensitively): of the status texts only
\* "Discharging\n" gives Unplugged; the text is that of BAT1_STATUS, and
\* that of BAT0_STATUS by the same rule when BAT1_STATUS is absent.
UnpluggedTexts == {Discharging \o <<NL>>}

C11_BootstrapRule ==
  setup = "Ok" =>
    /\ bat1.kind = "Ok" => boot = (bat1.text \notin UnpluggedTexts)
    /\ bat1.kind = "NotFound" => boot = (bat0.text \notin UnpluggedTexts)
    /\ result = "New" => plugged = boot

C11_Witness ==
  /\ setup = "Ok"
  /\ bat1.kind = "NotFound"
  /\ bat0 = FileOf(StatusTab[1])
  /\ ~boot
  /\ events = <<"Plugged">>

\* C12 as claimed: BAT0_STATUS is read only when reading BAT1_STATUS fails
\* with "not found"; any other failure of that read is the error of
\* with_socket and BAT0_STATUS is not read.
C12_FallbackOnlyWhenMissing ==
  (setup # "None" /\ connOk) =>
    /\ (\E i \in 1..Len(fsReads) : fsReads[i] = "BAT0") <=> bat1.kind = "NotFound"
    /\ bat1.kind \notin {"Ok", "NotFound"} => setup = bat1.kind

\* C12 as amended: BAT0_STATUS is read exactly when reading BAT1_STATUS
\* fails, whatever the error; that error is dropped and the outcome is the
\* one of reading BAT0_STATUS; BAT1_STATUS is read once, first, and never
\* again.
C12_FallbackOnAnyError ==
  (setup # "None" /\ connOk) =>
    /\ fsReads = IF bat1.kind = "Ok" THEN <<"BAT1">> ELSE <<"BAT1", "BAT0">>
    /\ bat1.kind # "Ok" => setup = bat0.kind
    /\ bat1.kind = "Ok" => setup = "Ok"

C12_Witness ==
  /\ setup = "Ok"
  /\ bat1.kind = "PermissionDenied"
  /\ bat0.kind = "Ok"
  /\ fsReads = <<"BAT1", "BAT0">>

\* C13: with_socket returns an engine only if the connection succeeded and
\* a status file was read; otherwise it returns the error, and no call of
\* poll_next, hence no item, ever comes of it.
C13_EngineOnlyAfterSetup ==
  /\ setup = "Ok" <=>
       (setup # "None" /\ connOk /\ (bat1.kind = "Ok" \/ bat0.kind = "Ok"))
  /\ (setup # "None" /\ ~connOk) => (setup = "ConnectFailed" /\ fsReads = <<>>)
  /\ setup # "Ok" =>
       (result = "New" /\ events = <<>> /\ tested = <<>> /\ nsent = 0 /\ ~eof /\ ~failed)

C13_Witness ==
  /\ setup = "PermissionDenied"
  /\ connOk
  /\ bat1.kind = "NotFound"
  /\ fsReads = <<"BAT1", "BAT0">>
  /\ result = "New"

\* C14: a call that returns an event returns on the record that made it,
\* the last one it tested; the records after it are tested by later calls,
\* each once and in order, so that once every record the peer wrote has
\* been read the events returned are those of the records taken whole, one
\* after the other.
C14_EventsAreFoldOfLines ==
  /\ result \in Events =>
       (tested # <<>> /\ Effective(tested[Len(tested)], ~plugged))
  /\ (rbuf = <<>> /\ sock = <<>> /\ cur = 0 /\ ~failed /\ ~sockErr) =>
       events = refEvents

\* C15: a call does not return on a record that is no event: it returns
\* an event, an error item, None, or Pending with nothing left to read on
\* the connection.  Every record it tested before the last is no event, an
\* event is made by the last record tested, and every record whose newline
\* the call has read was tested before it returned (the record of a failed
\* read excepted, whose error is the item).
Newlines(s) == Cardinality({i \in 1..Len(s) : s[i] = NL})

C15_NoReturnOnSkippedRecord ==
  [][PollNext =>
       /\ result' \in Events \cup {"Err", "End", "Pending"}
       /\ result' = "Pending" => (rbuf' = <<>> /\ sock' = <<>> /\ ~closed)
       /\ \A i \in 1..Len(tested') :
            Effective(tested'[i], plugged) <=>
              (i = Len(tested') /\ result' \in Events)
       /\ Newlines(rbuf \o sock) - Newlines(rbuf' \o sock')
            <= Len(tested') + (IF result' = "Err" THEN 1 ELSE 0)]_vars

C15_Witness ==
  /\ Len(tested) = 2
  /\ ~Effective(tested[1], ~plugged)
  /\ result \in Events
  /\ rbuf = <<>>
  /\ sock = <<>>

\* C16: the outcome of a record is decided by the state and the trimmed
\* text alone, by the prefix "ac_adapter" and the last character.  The
\* text tested has no white space at either end; an event is the opposite
\* of the state and comes of a text with the prefix and the digit of that
\* state.  Read alone on an idle connection, the padded " ac_adapter1\r\n"
\* is tested as "ac_adapter1", "ac_adapter x\n" gives no event, no error
\* and no change of state, and "ac_adapter_extra_10\n" is an unplug
\* announcement.
Padded(text) ==
  text # <<>> /\ (text[1] \in WhiteSpace \/ text[Len(text)] \in WhiteSpace)

ExtraText == AcAdapter \o <<"_", "e", "x", "t", "r", "a", "_", "1", "0">>

C16_DecisionOnTrimmedText ==
  [][PollNext =>
       /\ \A i \in 1..Len(tested') : ~Padded(tested'[i])
       /\ result' \in Events =>
            /\ result' = Opposite(plugged)
            /\ StartsWith(tested'[Len(tested')], AcAdapter)
            /\ EndsWith(tested'[Len(tested')], IF plugged THEN "0" ELSE "1")
       /\ (line = <<>> /\ rbuf = <<>> /\ ~sockErr /\ ~closed) =>
            /\ sock = LineTab[6] =>
                 /\ tested' = << AcAdapter \o <<"1">> >>
                 /\ result' = IF plugged THEN "Pending" ELSE "Plugged"
            /\ sock = LineTab[3] =>
                 /\ tested' = << AcAdapter \o <<" ", "x">> >>
                 /\ result' = "Pending"
                 /\ plugged' = plugged
                 /\ events' = events
            /\ sock = LineTab[9] =>
                 /\ tested' = <<ExtraText>>
                 /\ result' = IF plugged THEN "Unplugged" ELSE "Pending"
                 /\ ~plugged']_vars

C16_Witness ==
  /\ result = "Unplugged"
  /\ tested = <<ExtraText>>
  /\ ~plugged
  /\ events = <<"Plugged", "Unplugged">>

\* C17: a call returns None only when the read reported zero bytes, that
\* is when the peer has closed the connection and nothing is left to read;
\* while the connection is open no record, empty or not, makes a call
\* return None.
C17_EndOnlyOnZeroRead ==
  [][PollNext =>
       /\ result' = "End" =>
            (closed /\ ~sockErr /\ rbuf' = <<>> /\ sock' = <<>>)
       /\ ~closed => (result' # "End" /\ ~eof')]_vars

C17_Witness ==
  /\ Len(tested) = 2
  /\ tested[1] = <<>>
  /\ result \in Events
  /\ ~closed
  /\ ~eof

\* C18: this.line is cleared after every record tested.  It never holds a
\* whole record between calls and is empty after an event; within a call
\* every read after a tested record starts on an empty string, and no
\* text tested holds a newline, that is bytes of two records.
C18_LineClearedAfterRecord ==
  /\ Newlines(line) = 0
  /\ result \in Events => line = <<>>
  /\ \A i \in 1..Len(tested) : Newlines(tested[i]) = 0
  /\ \A i \in 2..Len(slices) : slices[i].read = slices[i].len

C18_Witness ==
  /\ Len(tested) = 2
  /\ tested[1] # <<>>
  /\ tested[2] # <<>>
  /\ result = "Pending"
  /\ line = <<>>

\* C19: a read that returns a count other than zero returns the length of
\* this.line: the slice this.line[..read] tested is the whole string,
\* never a strict prefix of it and never beyond its end.
C19_ReadIsWholeLine ==
  \A i \in 1..Len(slices) :
    /\ slices[i].read <= slices[i].len
    /\ slices[i].read = slices[i].len

\* C20: a last record without newline at the close of the connection is
\* tested like a terminated one: once a call has returned None after the
\* peer closed in the middle of a record, the events returned are those
\* of the whole records followed by the one of the bytes of that record
\* the peer had written.
LastText == ReadLineText(Take(LineTab[cur], off), off)

C20_UnterminatedLastRecord ==
  (eof /\ cur # 0 /\ ~failed) =>
    events = IF Decide(refPlugged, LastText) \in Events
               THEN Append(refEvents, Decide(refPlugged, LastText))
               ELSE refEvents

====
